---- MODULE Spec2Model ----
(***************************************************************************)
(* A model of the scraping orchestrator of scraper/tasks.py and of the     *)
(* per-store scrape of scraper/scraper_engine.py.                          *)
(*                                                                         *)
(* One ScrapingSession row lives in the database.  The orchestrator        *)
(* (orchestrate_daily_scraping) creates it, dispatches one                 *)
(* scrape_single_store task per store and joins them; every task reads     *)
(* the row, changes its own in-memory copy and writes the whole row back   *)
(* (Model.save() without update_fields writes every column).               *)
(***************************************************************************)
EXTENDS Integers, Sequences, FiniteSets, TLC

\* ------------------------------------------------------------------ bounds

\* number of stores of the session (len(store_ids))
NumStores == 2

\* largest number of rows one page yields
MaxRows == 1

\* --------------------------------------------------------------- constants

\* @app.task(bind=True, max_retries=2)
max_retries == 2

\* countdown = 60 * (2 ** self.request.retries)
base_delay == 60

Stores == 1..NumStores

\* What the page fetch of one execution meets.
Fetches == {"ok", "timeout", "non2xx", "neterr"}

FetchErrors == {"timeout", "non2xx", "neterr"}

Terminal == {"completed", "partial", "failed"}

VARIABLES
    store_ids,        \* the store ids orchestrate_daily_scraping was given
    sess,             \* the ScrapingSession row in the database
    slot_batches,     \* per store: bulk_create batches persisted in daily_slot_data
    scraping_errors,  \* stores having a ScrapingError row for the session
    opc,              \* orchestrator: position in orchestrate_daily_scraping
    osess,            \* orchestrator: its in-memory session object
    oexc,             \* orchestrator: what its except branch caught
    tpc,              \* per store: position of its scrape_single_store task
    retries,          \* per store: self.request.retries
    tsess,            \* per store: the task's in-memory session object
    result,           \* per store: the dict scrape_store_data returned
    countdowns,       \* per store: the countdowns given to self.retry, in order
    execs,            \* per store: executions of the task started so far
    returned,         \* per store: what the task returned to the result backend
    store_rows,       \* per store: its Store row in the database
    text,             \* the cell text handed to a helper of the scraper
    called,           \* the helpers that have been applied to text
    safe_int_ret,     \* what _safe_int(text) returned
    win_rate_ret,     \* what _parse_win_rate(text) returned
    capture,          \* what _render_page_and_capture handed to the parser
    ppc,              \* position in scrape_store_data's parse and write
    final_rows,       \* what _parse_store_page_enhanced returned
    snapshots_parsed, \* HTML fragments handed to _extract_from_table_html
    batch,            \* the list bulk_create received
    rpc,              \* position in _render_page_and_capture
    goto_timed_out,   \* page.goto raised PlaywrightTimeoutError
    tag,              \* index of the candidate selector being scanned
    scanned,          \* elements of that selector examined so far
    clickable_locators, \* the candidates collected by the scan
    seen_texts,       \* normalized texts of the collected candidates
    fragments,        \* the HTML snapshots taken so far
    clicks,           \* outcome of every candidate clicked so far, in order
    table_th,         \* the <th> texts of a table
    table_tds,        \* the <td> texts of one of its rows
    trc,              \* position in _extract_from_table_html for that row
    slot,             \* the record built from the row, if any
    cpc,              \* the management commands: position
    retry_runs,       \* runs of retry_failed_scrapes so far
    requeued,         \* the stores the last retry run collected
    loop,             \* the stores the running command has still to scrape
    successful,       \* the running command's local successful
    failed,           \* the running command's local failed
    records,          \* its local total_records / retried_records
    outcomes,         \* per store: how its scrape in the running loop ended
    counted_ok,       \* per store: times it was added to successful_stores
    counted_failed    \* the stores failed_stores counts at present

textVars == <<text, called, safe_int_ret, win_rate_ret>>

pipeVars == <<capture, ppc, final_rows, snapshots_parsed, batch>>

renderVars == <<rpc, goto_timed_out, tag, scanned, clickable_locators,
                seen_texts, fragments, clicks>>

tableVars == <<table_th, table_tds, trc, slot>>

cmdVars == <<cpc, retry_runs, requeued, loop, successful, failed, records,
             outcomes, counted_ok, counted_failed>>

engineVars == <<textVars, pipeVars, renderVars, tableVars, cmdVars>>

sessionVars == <<store_ids, sess, slot_batches, scraping_errors, opc, osess,
                 oexc, tpc, retries, tsess, result, countdowns, execs,
                 returned, store_rows>>

vars == <<sessionVars, engineVars>>

orchVars == <<store_ids, opc, osess, oexc>>

\* ---------------------------------------------------------------- records

\* No row yet; the counters are the column defaults of ScrapingSession.
NoRow ==
    [status |-> "absent", total_stores |-> 0, successful_stores |-> 0,
     failed_stores |-> 0, total_records |-> 0, error_log |-> {},
     end_time |-> FALSE]

\* A task's locals outside the statements that use them.
NoResult ==
    [success |-> FALSE, records_created |-> 0, errors |-> "unset",
     fetch |-> "none"]

\* ------------------------------------------------- scraper_engine.py

\* scrape_store_data: the result dict of one scrape.  A network failure makes
\* page.goto raise inside _parse_store_page_enhanced (outer except: the message
\* is appended to errors); a navigation timeout or an error page leaves a DOM
\* without rows ("No valid data found on page"); rows are handed to
\* bulk_create, which may raise (the message is appended to errors).  The dict
\* has no fetch key: the field records what the fetch met, for the properties.
scrape_store_data(fetch, nrows, dbok) ==
    IF fetch = "neterr"
      THEN [success |-> FALSE, records_created |-> 0, errors |-> "net_error",
            fetch |-> fetch]
    ELSE IF fetch # "ok" \/ nrows = 0
      THEN [success |-> FALSE, records_created |-> 0, errors |-> "no_valid_data",
            fetch |-> fetch]
    ELSE IF dbok
      THEN [success |-> TRUE, records_created |-> nrows, errors |-> "none",
            fetch |-> fetch]
    ELSE [success |-> FALSE, records_created |-> 0, errors |-> "db_error",
          fetch |-> fetch]

\* The only place scrape_store_data calls _log_error: its outer except.
LogsScrapingError(r) == r.errors = "net_error"

\* ------------------------------------------------------------ tasks.py

\* str(store_id), the key of a store in error_log
StoreKey(s) == ToString(s)

\* A statistics update that counts every returned scrape as a success.
UpdateStatsAlwaysSuccess(row, s, r) ==
    [row EXCEPT !.successful_stores = @ + 1,
                !.total_records = @ + r.records_created]

\* lines 25-31: the statistics update on the task's copy of the row.
UpdateStats(row, s, r) ==
    IF r.success
      THEN [row EXCEPT !.successful_stores = @ + 1,
                       !.total_records = @ + r.records_created]
      ELSE [row EXCEPT !.failed_stores = @ + 1,
                       !.error_log = @ \cup {StoreKey(s)}]

\* lines 45-46: the final failure on a freshly read row.
FinalFailure(row, s) ==
    [row EXCEPT !.failed_stores = @ + 1, !.error_log = @ \cup {StoreKey(s)}]

\* A transaction.atomic() block that commits its write although it raised.
AtomicKeepsWrite(before, written) == written

\* The row a raising transaction.atomic() block leaves behind: before is the
\* row when the block was entered, written the row session.save() wrote.

AtomicRollback(before, written) == before

\* line 39
countdown(r) == base_delay * (2 ^ r)

\* A finalisation that leaves the status as it was read.
FinalStatusKept(row) == row.status

\* lines 98-103
FinalStatus(row) ==
    IF row.failed_stores = 0 THEN "completed"
    ELSE IF row.successful_stores > 0 THEN "partial"
    ELSE "failed"

\* An except branch that marks the session failed without closing it.
OrchestrationFailedOpen(row) ==
    [row EXCEPT !.status = "failed",
                !.error_log = @ \cup {"orchestration_error"}]

\* lines 119-121, on the orchestrator's own (never refreshed) object
OrchestrationFailed(row) ==
    [row EXCEPT !.status = "failed", !.end_time = TRUE,
                !.error_log = @ \cup {"orchestration_error"}]

\* --------------------------------------------------------------- Init

\* Python's None, and a value that is present
None == [has |-> FALSE, val |-> 0]

Some(v) == [has |-> TRUE, val |-> v]

\* models.py 37-49: no Store row yet, and the row get_or_create makes of the
\* column defaults (last_successful_scrape null, consecutive_failures 0)
NoStore ==
    [exists |-> FALSE, last_successful_scrape |-> FALSE,
     consecutive_failures |-> 0]

get_or_create(row) ==
    IF row.exists THEN row ELSE [NoStore EXCEPT !.exists = TRUE]

\* ------------------------------------- scraper_engine.py: text helpers

\* A text is a sequence of characters, each written as a one-character
\* string.  The texts handed to the helpers are those of at most MaxLen
\* characters over Alphabet: three digits, the separators and signs of a
\* numeric cell, one of the three unit glyphs, and the two marks of a win
\* rate.  No text has a letter or white space, so str.strip() changes
\* nothing and the "null"/"none" test of lines 78 and 89 is never met.
MaxLen == 3

Units == {"枚", "回", "円"}

Alphabet == {"0", "3", "5", ",", "+", "-", ".", "/", "%", "枚"}

Texts == UNION {[1..n -> Alphabet] : n \in 0..MaxLen}

\* A Python float is kept as an integer number of 1/Scale: every decimal
\* text of at most MaxLen characters has fewer than MaxLen fraction digits.
Scale == 10 ^ MaxLen

DecimalDigits == {ToString(n) : n \in 0..9}

DigitVal(c) == CHOOSE n \in 0..9 : ToString(n) = c

RECURSIVE DigitsValue(_)
DigitsValue(d) ==
    IF d = <<>> THEN 0
    ELSE DigitsValue(SubSeq(d, 1, Len(d) - 1)) * 10 + DigitVal(d[Len(d)])

\* float(s) for a text without letters, white space and underscores: an
\* optional sign, then digits with at most one point and at least one digit.
Unsigned(s) == IF s # <<>> /\ Head(s) \in {"+", "-"} THEN Tail(s) ELSE s

IsFloat(s) ==
    LET u == Unsigned(s) IN
      /\ \A i \in 1..Len(u) : u[i] \in DecimalDigits \cup {"."}
      /\ Cardinality({i \in 1..Len(u) : u[i] = "."}) <= 1
      /\ \E i \in 1..Len(u) : u[i] \in DecimalDigits

float(s) ==
    LET u == Unsigned(s)
        dots == {i \in 1..Len(u) : u[i] = "."}
        p == IF dots = {} THEN Len(u) + 1 ELSE CHOOSE i \in dots : TRUE
        whole == SubSeq(u, 1, p - 1)
        frac == SubSeq(u, p + 1, Len(u))
        mag == DigitsValue(whole) * Scale
                 + DigitsValue(frac) * (10 ^ (MaxLen - Len(frac)))
    IN IF s # <<>> /\ Head(s) = "-" THEN 0 - mag ELSE mag

\* int(f): truncation toward zero
int(f) == IF f >= 0 THEN f \div Scale ELSE 0 - ((0 - f) \div Scale)

\* lines 71-82; float() raising ValueError is the except branch
_safe_int(value) ==
    LET s == SelectSeq(value, LAMBDA c : c \notin ({",", "+"} \cup Units)) IN
      IF s = <<>> \/ s = <<"-">> THEN None
      ELSE IF IsFloat(s) THEN Some(int(float(s)))
      ELSE None

\* lines 84-93
_safe_float(value) ==
    LET s == SelectSeq(value, LAMBDA c : c \notin {"%", ","}) IN
      IF s = <<>> \/ s = <<"-">> THEN None
      ELSE IF IsFloat(s) THEN Some(float(s))
      ELSE None

Contains(s, c) == \E i \in 1..Len(s) : s[i] = c

\* text.split("/"), its first two parts (there are two when text has a "/")
split(s) ==
    LET first == CHOOSE i \in 1..Len(s) :
                   s[i] = "/" /\ \A j \in 1..(i - 1) : s[j] # "/"
        rest == SubSeq(s, first + 1, Len(s))
        stop == IF Contains(rest, "/")
                  THEN CHOOSE i \in 1..Len(rest) :
                         rest[i] = "/" /\ \A j \in 1..(i - 1) : rest[j] # "/"
                  ELSE Len(rest) + 1
    IN <<SubSeq(s, 1, first - 1), SubSeq(rest, 1, stop - 1)>>

\* The integer nearest to n / d for d > 0, the even one of two equally near:
\* what round() gives for a quotient that a double holds exactly.
RoundHalfEven(n, d) ==
    LET q == n \div d
        r == n - q * d
    IN IF 2 * r < d THEN q
       ELSE IF 2 * r > d THEN q + 1
       ELSE IF q % 2 = 0 THEN q ELSE q + 1

\* A percentage that was not multiplied by 100.
PercentAsFraction(wins, total) ==
    RoundHalfEven(wins * 100, total) * (Scale \div 100)

\* line 107: round((wins / total) * 100.0, 2)
Percent(wins, total) ==
    RoundHalfEven(wins * 10000, total) * (Scale \div 100)

\* (None, None, None)
NoWinRate == [wins |-> None, total |-> None, pct |-> None]

\* lines 95-119
_parse_win_rate(t) ==
    IF t = <<>> THEN NoWinRate
    ELSE IF Contains(t, "/")
      THEN LET parts == split(t)
               wins == _safe_int(parts[1])
               total == _safe_int(parts[2])
           IN [wins |-> wins, total |-> total,
               pct |-> IF wins.has /\ total.has /\ total.val > 0
                         THEN Some(Percent(wins.val, total.val))
                         ELSE None]
    ELSE IF Contains(t, "%")
      THEN [wins |-> None, total |-> None, pct |-> _safe_float(t)]
    ELSE NoWinRate

\* --------------------------------- scraper_engine.py: rows and their ids

\* HTML snapshots of one capture, rows of one table, items of the JSON
\* payloads of one capture
MaxSnapshots == 2

MaxTableRows == 1

MaxItems == 2

\* hash(...) & 0xFFFFFF
HashMask == 16777215

\* A cell of a table row or a value of a JSON item: absent when the table
\* has no such column or the item no such key, else its text.
NoCell == [has |-> FALSE, val |-> <<>>]

Cell(t) == [has |-> TRUE, val |-> t]

\* The three fields of column_map that decide whether a row is kept and
\* what its unique key is, in the order of the columns.
Columns == {"machine_number", "machine_name", "credit_difference"}

ColumnOrder == <<"machine_number", "machine_name", "credit_difference">>

\* The texts a cell of each column takes: a missing marker, zero and a
\* machine number; a machine name; a missing credit difference.
CellTexts(col) ==
    CASE col = "machine_number" -> {<<"-">>, <<"0">>, <<"3">>}
      [] col = "machine_name" -> {<<"A">>}
      [] col = "credit_difference" -> {<<"-">>}

SeqsOf(S, lo, hi) == UNION {[1..n -> S] : n \in lo..hi}

\* The rows (<td> texts by mapped column) of a table whose header has the
\* columns H.
TableRowsOf(H) ==
    {row \in [Columns -> {NoCell} \cup
                {Cell(x) : x \in UNION {CellTexts(c) : c \in Columns}}] :
       \A c \in Columns :
         IF c \in H THEN row[c].has /\ row[c].val \in CellTexts(c)
         ELSE row[c] = NoCell}

\* An HTML fragment: one table, its header and its rows.
Tables ==
    UNION {{[headers |-> H, rows |-> rs, raises |-> FALSE] :
              rs \in SeqsOf(TableRowsOf(H), 1, MaxTableRows)} :
           H \in SUBSET Columns}

\* A fragment on which _extract_from_table_html raises (html.parser gives up
\* on the markup, or the interpreter's recursion limit is hit in it).
Unparsable == [headers |-> {}, rows |-> <<>>, raises |-> TRUE]

\* An element that is not a dict: item.items() raises AttributeError.
NotADict ==
    [dict |-> FALSE, number |-> NoCell, difference |-> NoCell, id |-> NoCell]

\* The items of the lists found in the JSON payloads: the values under the
\* machine-number-like, difference-like and id-like keys.
JsonItems ==
    {[dict |-> TRUE, number |-> n, difference |-> d, id |-> m] :
       n \in {NoCell, Cell(<<"-">>), Cell(<<"0">>), Cell(<<"3">>)},
       d \in {NoCell, Cell(<<"5">>)},
       m \in {NoCell, Cell(<<"3">>)}} \cup {NotADict}

\* What _render_page_and_capture returns; without a browser the one
\* fragment is the fetched page and there is no payload (lines 487-494).
Captures ==
    {[json_payloads |-> j, html_fragments |-> f] :
       j \in SeqsOf(JsonItems, 0, MaxItems),
       f \in SeqsOf(Tables \cup {Unparsable}, 1, MaxSnapshots)}

\* str(n) of an integer
RECURSIVE str(_)
str(n) ==
    IF n < 0 THEN <<"-">> \o str(0 - n)
    ELSE IF n < 10 THEN <<ToString(n)>>
    ELSE str(n \div 10) \o <<ToString(n % 10)>>

\* hash() of a text.  Python seeds str hashes per process; within a process
\* equal texts have equal hashes, which is all the pipeline relies on.  The
\* stand-in is a polynomial over the characters' places in CodeTable.
CodeTable ==
    <<"0", "1", "2", "3", "4", "5", "6", "7", "8", "9", ",", "+", "-", ".",
      "/", "%", "枚", "回", "円", "A">>

ord(c) == CHOOSE i \in 1..Len(CodeTable) : CodeTable[i] = c

RECURSIVE hash(_)
hash(s) ==
    IF s = <<>> THEN 0
    ELSE hash(SubSeq(s, 1, Len(s) - 1)) * 31 + ord(s[Len(s)])

RECURSIVE join(_)
join(texts) ==
    IF texts = <<>> THEN <<>> ELSE Head(texts) \o join(Tail(texts))

\* bool(x) of an Optional[int]: None and 0 are false
Truthy(x) == x.has /\ x.val # 0

\* lines 286-312: the data dict of one <tr>.  keys are the keys present in
\* data (a mapped column gives a key whatever its cell parses to); raw is
\* "".join(td_texts); machine_id stays None without an anchor in the row.
TableRowData(row) ==
    [strategy |-> "table",
     keys |-> {c \in Columns : row[c].has},
     machine_number |->
       IF row["machine_number"].has
         THEN _safe_int(row["machine_number"].val) ELSE None,
     machine_name |-> row["machine_name"],
     credit_difference |->
       IF row["credit_difference"].has
         THEN _safe_int(row["credit_difference"].val) ELSE None,
     machine_id |-> None,
     raw |-> join([i \in 1..3 |-> row[ColumnOrder[i]].val])]

\* A test that accepts every row.
TableRowKeptAlways(d) == TRUE

\* lines 315-316: if not any(k in data for k in ("machine_number",
\* "machine_name", "credit_difference")): continue
TableRowKept(d) == d.keys \cap Columns # {}

\* lines 264-373 without the ids: the rows of a fragment that are kept
_extract_from_table_html(table) ==
    SelectSeq([i \in 1..Len(table.rows) |-> TableRowData(table.rows[i])],
              TableRowKept)

\* lines 402-440: the values extracted from one item; raw is str(item)
JsonItemData(item) ==
    [strategy |-> "json",
     keys |-> {},
     machine_number |->
       IF item.number.has THEN _safe_int(item.number.val) ELSE None,
     machine_name |-> NoCell,
     credit_difference |->
       IF item.difference.has THEN _safe_int(item.difference.val) ELSE None,
     machine_id |-> IF item.id.has THEN _safe_int(item.id.val) ELSE None,
     raw |-> join(<<item.number.val, item.difference.val, item.id.val>>)]

\* lines 442-444: if machine_number is None and credit_difference is None
JsonItemKept(d) == d.machine_number.has \/ d.credit_difference.has

\* lines 381-479 without the ids; raised tells that an item was not a dict,
\* which ends the extraction with an exception
_extract_from_json_payloads(items) ==
    [raised |-> \E i \in 1..Len(items) : ~items[i].dict,
     items |-> SelectSeq([i \in 1..Len(items) |-> JsonItemData(items[i])],
                         JsonItemKept)]

\* line 330: data.get("machine_number") or data.get("machine_name")
\*           or hash("".join(td_texts)) & 0xFFFFFF
\* line 446: machine_number or machine_id or hash(str(item)) & 0xFFFFFF
\* as the text the f-string of line 123 makes of it
unique_key(d) ==
    IF Truthy(d.machine_number) THEN str(d.machine_number.val)
    ELSE IF d.strategy = "table" /\ d.machine_name.has
                                 /\ d.machine_name.val # <<>>
      THEN d.machine_name.val
    ELSE IF d.strategy = "json" /\ Truthy(d.machine_id)
      THEN str(d.machine_id.val)
    ELSE str(hash(d.raw) % (HashMask + 1))

\* lines 121-124: the id is the md5 of store_id, date, unique key and
\* time.time_ns().  store_id and date are the same for every row of a call;
\* different texts are taken to have different digests, so the id is kept
\* as the text that is hashed.
_generate_mysql_id(key, time_ns) == [key |-> key, ns |-> time_ns]

\* lines 331-371, 447-477: the unsaved DailySlotData of each kept row, the
\* i-th id taking the i-th reading of the clock
DailySlotData(ds, clock) ==
    [i \in 1..Len(ds) |->
       [id |-> _generate_mysql_id(unique_key(ds[i]), clock[i]),
        data |-> ds[i]]]

\* The readings of time.time_ns() by n successive calls: a call reads the
\* value the call before it read, or a later one.
Clocks(n) ==
    {c \in [1..n -> 1..n] :
       /\ n > 0 => c[1] = 1
       /\ \A i \in 1..(n - 1) : c[i + 1] \in {c[i], c[i] + 1}}

\* lines 519-527: unique_map[r.id] = r for every row, then the dict's values
RECURSIVE Deduplicate(_, _, _)
Deduplicate(rows, i, unique_map) ==
    IF i > Len(rows) THEN unique_map
    ELSE IF \E k \in 1..Len(unique_map) : unique_map[k].id = rows[i].id
      THEN Deduplicate(rows, i + 1,
             [k \in 1..Len(unique_map) |->
                IF unique_map[k].id = rows[i].id THEN rows[i]
                ELSE unique_map[k]])
    ELSE Deduplicate(rows, i + 1, Append(unique_map, rows[i]))

\* A loop that parses the initial snapshot only.
FirstFragment(cap) == SubSeq(cap.html_fragments, 1, 1)

\* line 509: for frag in fragments
Fragments(cap) == cap.html_fragments

\* A loop over the fragments that an exception ends.
Break(rest) == <<>>

\* lines 515-517: except Exception ... continue
Continue(rest) == rest

\* lines 508-517: all_rows before the ids
RECURSIVE AllRows(_)
AllRows(frags) ==
    IF frags = <<>> THEN <<>>
    ELSE IF Head(frags).raises THEN AllRows(Continue(Tail(frags)))
    ELSE _extract_from_table_html(Head(frags)) \o AllRows(Tail(frags))

\* lines 497-506: the rows of the JSON strategy, none when it raised
JsonYield(cap) ==
    LET j == _extract_from_json_payloads(cap.json_payloads) IN
      IF cap.json_payloads = <<>> \/ j.raised THEN <<>> ELSE j.items

\* The rows whose ids are computed on the path the call takes.
RowsOnPath(cap) ==
    IF JsonYield(cap) # <<>> THEN JsonYield(cap)
    ELSE AllRows(Fragments(cap))

\* lines 482-528: the rows returned and the number of fragments parsed
_parse_store_page_enhanced(cap, clock) ==
    IF JsonYield(cap) # <<>>
      THEN [rows |-> DailySlotData(JsonYield(cap), clock), parsed |-> 0]
    ELSE [rows |-> Deduplicate(
                     DailySlotData(AllRows(Fragments(cap)), clock), 1, <<>>),
          parsed |-> Len(Fragments(cap))]

\* No helper has been called and no page has been captured.
TextIdle ==
    /\ text = <<>>
    /\ called = {}
    /\ safe_int_ret = None
    /\ win_rate_ret = NoWinRate

NoCapture == [json_payloads |-> <<>>, html_fragments |-> <<>>]

PipeIdle ==
    /\ capture = NoCapture
    /\ ppc = "idle"
    /\ final_rows = <<>>
    /\ snapshots_parsed = 0
    /\ batch = <<>>

SessionInit ==
    /\ store_ids = {}
    /\ sess = NoRow
    /\ slot_batches = [s \in Stores |-> 0]
    /\ scraping_errors = {}
    /\ opc = "create"
    /\ osess = NoRow
    /\ oexc = "none"
    /\ tpc = [s \in Stores |-> "idle"]
    /\ retries = [s \in Stores |-> 0]
    /\ tsess = [s \in Stores |-> NoRow]
    /\ result = [s \in Stores |-> NoResult]
    /\ countdowns = [s \in Stores |-> <<>>]
    /\ execs = [s \in Stores |-> 0]
    /\ returned = [s \in Stores |-> NoResult]
    /\ store_rows = [s \in Stores |-> NoStore]

\* _render_page_and_capture has not been called.
RenderIdle ==
    /\ rpc = "idle"
    /\ goto_timed_out = FALSE
    /\ tag = 1
    /\ scanned = 0
    /\ clickable_locators = <<>>
    /\ seen_texts = {}
    /\ fragments = <<>>
    /\ clicks = <<>>

\* No table row is being extracted.
TableIdle ==
    /\ table_th = <<>>
    /\ table_tds = <<>>
    /\ trc = "idle"
    /\ slot = <<>>

\* No management command has been run.
CmdIdle ==
    /\ cpc = "idle"
    /\ retry_runs = 0
    /\ requeued = {}
    /\ loop = <<>>
    /\ successful = 0
    /\ failed = 0
    /\ records = 0
    /\ outcomes = [s \in Stores |-> "none"]
    /\ counted_ok = [s \in Stores |-> 0]
    /\ counted_failed = {}

Init ==
    SessionInit /\ TextIdle /\ PipeIdle /\ RenderIdle /\ TableIdle /\ CmdIdle

\* ------------------------------------------- orchestrate_daily_scraping

\* lines 63-77: store_ids is never empty (the default list stands in for an
\* empty one); the row is created with status running and total_stores set
CreateSession ==
    /\ opc = "create"
    /\ \E n \in 1..NumStores : store_ids' = 1..n
    /\ sess' = [NoRow EXCEPT !.status = "running",
                             !.total_stores = Cardinality(store_ids')]
    /\ osess' = sess'
    /\ opc' = "dispatch"
    /\ UNCHANGED <<store_rows, engineVars, slot_batches, scraping_errors, oexc, tpc, retries, tsess,
                   result, countdowns, execs, returned>>

\* lines 83-89: every task of the group is queued
ApplyAsync ==
    /\ opc = "dispatch"
    /\ tpc' = [s \in Stores |-> IF s \in store_ids THEN "queued" ELSE "idle"]
    /\ opc' = "wait"
    /\ UNCHANGED <<store_rows, engineVars, store_ids, sess, slot_batches, scraping_errors, osess, oexc, retries,
                   tsess, result, countdowns, execs, returned>>

\* lines 117-123 after apply_async raised (broker unavailable)
ApplyAsyncRaises ==
    /\ opc = "dispatch"
    /\ osess' = OrchestrationFailed(osess)
    /\ sess' = osess'
    /\ oexc' = "dispatch"
    /\ opc' = "raised"
    /\ UNCHANGED <<store_rows, engineVars, store_ids, slot_batches, scraping_errors, tpc, retries, tsess,
                   result, countdowns, execs, returned>>

\* line 92: result.get returns once every task of the group has returned
GetReturns ==
    /\ opc = "wait"
    /\ \A s \in store_ids : tpc[s] = "done"
    /\ opc' = "refresh"
    /\ UNCHANGED <<store_rows, engineVars, store_ids, sess, slot_batches, scraping_errors, osess, oexc, tpc,
                   retries, tsess, result, countdowns, execs, returned>>

\* line 92 raising TimeoutError (some task has not returned within the hour),
\* then lines 117-123
GetTimesOut ==
    /\ opc = "wait"
    /\ \E s \in store_ids : tpc[s] # "done"
    /\ osess' = OrchestrationFailed(osess)
    /\ sess' = osess'
    /\ oexc' = "timeout"
    /\ opc' = "raised"
    /\ UNCHANGED <<store_rows, engineVars, store_ids, slot_batches, scraping_errors, tpc, retries, tsess,
                   result, countdowns, execs, returned>>

\* line 92 raising because the result backend is unavailable, then 117-123
GetRaises ==
    /\ opc = "wait"
    /\ osess' = OrchestrationFailed(osess)
    /\ sess' = osess'
    /\ oexc' = "backend"
    /\ opc' = "raised"
    /\ UNCHANGED <<store_rows, engineVars, store_ids, slot_batches, scraping_errors, tpc, retries, tsess,
                   result, countdowns, execs, returned>>

\* line 95
FinalizeRefresh ==
    /\ opc = "refresh"
    /\ osess' = sess
    /\ opc' = "finalize"
    /\ UNCHANGED <<store_rows, engineVars, store_ids, sess, slot_batches, scraping_errors, oexc, tpc, retries,
                   tsess, result, countdowns, execs, returned>>

\* lines 96-105
FinalizeSave ==
    /\ opc = "finalize"
    /\ osess' = [osess EXCEPT !.end_time = TRUE, !.status = FinalStatus(osess)]
    /\ sess' = osess'
    /\ opc' = "done"
    /\ UNCHANGED <<store_rows, engineVars, store_ids, slot_batches, scraping_errors, oexc, tpc, retries, tsess,
                   result, countdowns, execs, returned>>

\* ---------------------------------------------------- scrape_single_store

\* lines 35-41: the except branch up to the retry decision.  self.retry
\* re-queues the task after the countdown; otherwise the final failure is
\* logged next.
Handler(s) ==
    /\ IF retries[s] < max_retries
         THEN /\ tpc' = [tpc EXCEPT ![s] = "queued"]
              /\ retries' = [retries EXCEPT ![s] = @ + 1]
              /\ countdowns' =
                   [countdowns EXCEPT ![s] = Append(@, countdown(retries[s]))]
         ELSE /\ tpc' = [tpc EXCEPT ![s] = "final_get"]
              /\ UNCHANGED <<retries, countdowns>>
    /\ tsess' = [tsess EXCEPT ![s] = NoRow]
    /\ result' = [result EXCEPT ![s] = NoResult]

\* lines 16-17: a worker takes the task from the queue and reads the session
\* (the object read here is only handed on as a foreign key; its counters are
\* read again at line 24)
TaskGet(s) ==
    /\ tpc[s] = "queued"
    /\ execs' = [execs EXCEPT ![s] = @ + 1]
    /\ tpc' = [tpc EXCEPT ![s] = "scrape"]
    /\ UNCHANGED <<store_rows, engineVars, sess, slot_batches, scraping_errors, orchVars, retries,
                   tsess, result, countdowns, returned>>

\* line 17 raising (the database is unavailable)
TaskGetRaises(s) ==
    /\ tpc[s] = "queued"
    /\ execs' = [execs EXCEPT ![s] = @ + 1]
    /\ Handler(s)
    /\ UNCHANGED <<store_rows, engineVars, sess, slot_batches, scraping_errors, orchVars, returned>>

\* lines 19-20: scrape_store_data never raises; it persists the rows itself
\* and its only write to the Store row is the get_or_create of line 554.
\* Every id of a batch carries time.time_ns() (_generate_mysql_id), so no row
\* of a batch conflicts with a row of an earlier execution and bulk_create
\* with ignore_conflicts adds the whole batch again.
TaskScrape(s) ==
    /\ tpc[s] = "scrape"
    /\ \E fetch \in Fetches, nrows \in 0..MaxRows, dbok \in BOOLEAN :
         LET r == scrape_store_data(fetch, nrows, dbok) IN
           /\ result' = [result EXCEPT ![s] = r]
           /\ slot_batches' =
                IF r.success THEN [slot_batches EXCEPT ![s] = @ + 1]
                ELSE slot_batches
           /\ scraping_errors' =
                IF LogsScrapingError(r) THEN scraping_errors \cup {s}
                ELSE scraping_errors
    /\ store_rows' = [store_rows EXCEPT ![s] = get_or_create(@)]
    /\ tpc' = [tpc EXCEPT ![s] = "refresh"]
    /\ UNCHANGED <<engineVars, sess, orchVars, retries, tsess, countdowns, execs, returned>>

\* lines 23-24: refresh_from_db is a plain SELECT, it takes no row lock
TaskRefresh(s) ==
    /\ tpc[s] = "refresh"
    /\ tsess' = [tsess EXCEPT ![s] = sess]
    /\ tpc' = [tpc EXCEPT ![s] = "save"]
    /\ UNCHANGED <<store_rows, engineVars, sess, slot_batches, scraping_errors, orchVars, retries,
                   result, countdowns, execs, returned>>

\* line 24 raising
TaskRefreshRaises(s) ==
    /\ tpc[s] = "refresh"
    /\ Handler(s)
    /\ UNCHANGED <<store_rows, engineVars, sess, slot_batches, scraping_errors, orchVars, execs,
                   returned>>

\* lines 25-33: the whole row is written and the task returns result
TaskSave(s) ==
    /\ tpc[s] = "save"
    /\ sess' = UpdateStats(tsess[s], s, result[s])
    /\ returned' = [returned EXCEPT ![s] = result[s]]
    /\ tpc' = [tpc EXCEPT ![s] = "done"]
    /\ tsess' = [tsess EXCEPT ![s] = NoRow]
    /\ result' = [result EXCEPT ![s] = NoResult]
    /\ UNCHANGED <<store_rows, engineVars, slot_batches, scraping_errors, orchVars, retries,
                   countdowns, execs>>

\* line 31 (or the commit) raising: the atomic block rolls its write back
TaskSaveRaises(s) ==
    /\ tpc[s] = "save"
    /\ sess' = AtomicRollback(sess, UpdateStats(tsess[s], s, result[s]))
    /\ Handler(s)
    /\ UNCHANGED <<store_rows, engineVars, slot_batches, scraping_errors, orchVars, execs, returned>>

\* line 51: the dict returned after the final failure
TaskFailure ==
    [success |-> FALSE, records_created |-> 0, errors |-> "task_exception",
     fetch |-> "none"]

\* line 44
TaskFinalGet(s) ==
    /\ tpc[s] = "final_get"
    /\ tsess' = [tsess EXCEPT ![s] = sess]
    /\ tpc' = [tpc EXCEPT ![s] = "final_save"]
    /\ UNCHANGED <<store_rows, engineVars, sess, slot_batches, scraping_errors, orchVars, retries,
                   result, countdowns, execs, returned>>

\* lines 45-51
TaskFinalSave(s) ==
    /\ tpc[s] = "final_save"
    /\ sess' = FinalFailure(tsess[s], s)
    /\ returned' = [returned EXCEPT ![s] = TaskFailure]
    /\ tpc' = [tpc EXCEPT ![s] = "done"]
    /\ tsess' = [tsess EXCEPT ![s] = NoRow]
    /\ UNCHANGED <<store_rows, engineVars, slot_batches, scraping_errors, orchVars, retries, result,
                   countdowns, execs>>

\* lines 48-51: line 44 or line 47 raising, swallowed by the bare except
TaskFinalSwallowed(s) ==
    /\ tpc[s] \in {"final_get", "final_save"}
    /\ returned' = [returned EXCEPT ![s] = TaskFailure]
    /\ tpc' = [tpc EXCEPT ![s] = "done"]
    /\ tsess' = [tsess EXCEPT ![s] = NoRow]
    /\ UNCHANGED <<store_rows, engineVars, sess, slot_batches, scraping_errors, orchVars, retries,
                   result, countdowns, execs>>

\* The worker process is terminated while it runs the task.
Running == {"scrape", "refresh", "save", "final_get", "final_save"}

TaskKilled(s) ==
    /\ tpc[s] \in Running
    /\ tpc' = [tpc EXCEPT ![s] = "killed"]
    /\ tsess' = [tsess EXCEPT ![s] = NoRow]
    /\ result' = [result EXCEPT ![s] = NoResult]
    /\ UNCHANGED <<store_rows, engineVars, sess, slot_batches, scraping_errors, orchVars, retries,
                   countdowns, execs, returned>>

Next ==
    \/ CreateSession
    \/ ApplyAsync
    \/ ApplyAsyncRaises
    \/ GetReturns
    \/ GetTimesOut
    \/ GetRaises
    \/ FinalizeRefresh
    \/ FinalizeSave
    \/ \E s \in Stores : TaskGet(s)
    \/ \E s \in Stores : TaskGetRaises(s)
    \/ \E s \in Stores : TaskScrape(s)
    \/ \E s \in Stores : TaskRefresh(s)
    \/ \E s \in Stores : TaskRefreshRaises(s)
    \/ \E s \in Stores : TaskSave(s)
    \/ \E s \in Stores : TaskSaveRaises(s)
    \/ \E s \in Stores : TaskFinalGet(s)
    \/ \E s \in Stores : TaskFinalSave(s)
    \/ \E s \in Stores : TaskFinalSwallowed(s)
    \/ \E s \in Stores : TaskKilled(s)

Spec == Init /\ [][Next]_vars

\* The orchestrator is one running function: each of its statements is
\* reached once the one before it has ended.  apply_async returns or raises;
\* result.get(timeout=3600) returns once every task has returned and raises
\* TimeoutError after an hour otherwise, so it never blocks for ever.  No
\* fairness is put on the tasks: a task may hang or be killed.
OrchestratorRuns ==
    /\ WF_vars(ApplyAsync \/ ApplyAsyncRaises)
    /\ WF_vars(GetReturns \/ GetTimesOut \/ GetRaises)
    /\ WF_vars(FinalizeRefresh)
    /\ WF_vars(FinalizeSave)

FairSpec == Spec /\ OrchestratorRuns

\* ------------------------------------------- the helpers applied to a text

TextInit ==
    /\ SessionInit
    /\ PipeIdle
    /\ RenderIdle
    /\ TableIdle
    /\ CmdIdle
    /\ text \in Texts
    /\ called = {}
    /\ safe_int_ret = None
    /\ win_rate_ret = NoWinRate

\* a call of _safe_int(text)
SafeInt ==
    /\ "_safe_int" \notin called
    /\ safe_int_ret' = _safe_int(text)
    /\ called' = called \cup {"_safe_int"}
    /\ UNCHANGED <<sessionVars, pipeVars, renderVars, tableVars, cmdVars, text, win_rate_ret>>

\* a call of _parse_win_rate(text)
ParseWinRate ==
    /\ "_parse_win_rate" \notin called
    /\ win_rate_ret' = _parse_win_rate(text)
    /\ called' = called \cup {"_parse_win_rate"}
    /\ UNCHANGED <<sessionVars, pipeVars, renderVars, tableVars, cmdVars, text, safe_int_ret>>

TextNext ==
    \/ SafeInt
    \/ ParseWinRate

TextSpec == TextInit /\ [][TextNext]_vars

\* ------------------------------------- the parse and write of one scrape

PipeInit ==
    /\ SessionInit
    /\ TextIdle
    /\ RenderIdle
    /\ TableIdle
    /\ CmdIdle
    /\ capture \in Captures
    /\ ppc = "parse"
    /\ final_rows = <<>>
    /\ snapshots_parsed = 0
    /\ batch = <<>>

\* scrape_store_data line 568: rows = self._parse_store_page_enhanced(...)
ParseStorePage ==
    /\ ppc = "parse"
    /\ \E clock \in Clocks(Len(RowsOnPath(capture))) :
         LET r == _parse_store_page_enhanced(capture, clock) IN
           /\ final_rows' = r.rows
           /\ snapshots_parsed' = r.parsed
    /\ ppc' = "write"
    /\ UNCHANGED <<sessionVars, textVars, renderVars, tableVars, cmdVars, capture, batch>>

\* lines 581-586: bulk_create(rows, ignore_conflicts=True, batch_size=1000)
BulkCreate ==
    /\ ppc = "write"
    /\ final_rows # <<>>
    /\ batch' = final_rows
    /\ ppc' = "done"
    /\ UNCHANGED <<sessionVars, textVars, renderVars, tableVars, cmdVars, capture, final_rows,
                   snapshots_parsed>>

\* lines 591-593: "No valid data found on page"
NoValidData ==
    /\ ppc = "write"
    /\ final_rows = <<>>
    /\ ppc' = "done"
    /\ UNCHANGED <<sessionVars, textVars, renderVars, tableVars, cmdVars, capture, final_rows,
                   snapshots_parsed, batch>>

PipeNext ==
    \/ ParseStorePage
    \/ BulkCreate
    \/ NoValidData

PipeSpec == PipeInit /\ [][PipeNext]_vars

\* ------------------------- _render_page_and_capture with use_browser set

\* max_tab_clicks: int = 6
max_tab_clicks == 6

\* candidate_selectors = ["a", "button", "li", "span", "label", "div"]
NumSelectors == 6

\* elements one selector matches
MaxElems == 2

\* What the scan meets in one element.  Only equality of texts and the
\* presence of a keyword matter, so a normalized text is a number: 0 the
\* empty text, -1 a text without any of tab_keywords, 1, 2, ... the texts
\* with a keyword in the order in which the page first shows them.  raises
\* tells that el.inner_text() raised.
Elements(seen) ==
    {[text |-> x, kw |-> x > 0, raises |-> FALSE] :
       x \in {-1, 0} \cup seen \cup {Cardinality(seen) + 1}}
    \cup {[text |-> 0, kw |-> FALSE, raises |-> TRUE]}

\* lines 205-220: one element of the scan; loc is <<clickable_locators,
\* seen_texts>>
ScanElement(el, loc) ==
    IF el.raises \/ el.text = 0 \/ el.text \in loc[2] THEN loc
    ELSE IF el.kw THEN <<Append(loc[1], el), loc[2] \cup {el.text}>>
    ELSE loc

\* A click loop over every collected candidate.
AllCandidates(locs) == locs

\* line 226: clickable_locators[:max_tab_clicks]
ToClick(locs) ==
    SubSeq(locs, 1, IF Len(locs) < max_tab_clicks THEN Len(locs)
                    ELSE max_tab_clicks)

\* What one pass of the click loop meets: the click raised; the click went
\* through and page.content() raised; both went through.
ClickOutcomes == {"click_failed", "content_failed", "ok"}

\* A click loop that ends at the first exception.
BreakOnFailure(outcome) == IF outcome = "ok" THEN "click" ELSE "returned"

\* lines 238-240: except Exception: continue
ContinueOnFailure(outcome) == "click"

RenderInit ==
    /\ SessionInit
    /\ TextIdle
    /\ PipeIdle
    /\ TableIdle
    /\ CmdIdle
    /\ rpc = "goto"
    /\ goto_timed_out = FALSE
    /\ tag = 1
    /\ scanned = 0
    /\ clickable_locators = <<>>
    /\ seen_texts = {}
    /\ fragments = <<>>
    /\ clicks = <<>>

renderFrame == <<sessionVars, textVars, pipeVars, tableVars, cmdVars>>

\* lines 178-189: page.goto returns, or times out and the capture goes on
Goto ==
    /\ rpc = "goto"
    /\ goto_timed_out' \in BOOLEAN
    /\ rpc' = "snapshot"
    /\ UNCHANGED <<renderFrame, tag, scanned, clickable_locators, seen_texts,
                   fragments, clicks>>

\* line 179 raising anything but PlaywrightTimeoutError: the capture ends
\* with the exception
GotoRaises ==
    /\ rpc = "goto"
    /\ rpc' = "raised"
    /\ UNCHANGED <<renderFrame, goto_timed_out, tag, scanned,
                   clickable_locators, seen_texts, fragments, clicks>>

\* lines 192-195: the initial snapshot (snapshot 0); page.content() raising
\* is passed over
InitialSnapshot ==
    /\ rpc = "snapshot"
    /\ \E content_ok \in BOOLEAN :
         fragments' = IF content_ok THEN Append(fragments, 0) ELSE fragments
    /\ rpc' = "scan"
    /\ UNCHANGED <<renderFrame, goto_timed_out, tag, scanned,
                   clickable_locators, seen_texts, clicks>>

\* lines 205-220: the next element of the current selector
Scan ==
    /\ rpc = "scan"
    /\ scanned < MaxElems
    /\ \E el \in Elements(seen_texts) :
         LET loc == ScanElement(el, <<clickable_locators, seen_texts>>) IN
           /\ clickable_locators' = loc[1]
           /\ seen_texts' = loc[2]
    /\ scanned' = scanned + 1
    /\ UNCHANGED <<renderFrame, rpc, goto_timed_out, tag, fragments, clicks>>

\* lines 203-204, 221-222: the selector has no further element; the scan
\* ends once max_tab_clicks candidates are collected or no selector is left
EndOfSelector ==
    /\ rpc = "scan"
    /\ IF Len(clickable_locators) >= max_tab_clicks \/ tag = NumSelectors
         THEN rpc' = "click" /\ UNCHANGED tag
         ELSE tag' = tag + 1 /\ UNCHANGED rpc
    /\ scanned' = 0
    /\ UNCHANGED <<renderFrame, goto_timed_out, clickable_locators,
                   seen_texts, fragments, clicks>>

\* line 204: page.query_selector_all raising; it is outside every try
QueryRaises ==
    /\ rpc = "scan"
    /\ scanned = 0
    /\ rpc' = "raised"
    /\ UNCHANGED <<renderFrame, goto_timed_out, tag, scanned,
                   clickable_locators, seen_texts, fragments, clicks>>

\* lines 226-240: one pass of the click loop; the snapshot after the click
\* of the i-th candidate is snapshot i
Click ==
    /\ rpc = "click"
    /\ Len(clicks) < Len(ToClick(clickable_locators))
    /\ \E outcome \in ClickOutcomes :
         /\ clicks' = Append(clicks, outcome)
         /\ fragments' = IF outcome = "ok"
                           THEN Append(fragments, Len(clicks) + 1)
                           ELSE fragments
         /\ rpc' = ContinueOnFailure(outcome)
    /\ UNCHANGED <<renderFrame, goto_timed_out, tag, scanned,
                   clickable_locators, seen_texts>>

\* lines 245-252: the loop is over, the browser is closed, the bundle is
\* returned
Return ==
    /\ rpc = "click"
    /\ Len(clicks) = Len(ToClick(clickable_locators))
    /\ rpc' = "returned"
    /\ UNCHANGED <<renderFrame, goto_timed_out, tag, scanned,
                   clickable_locators, seen_texts, fragments, clicks>>

RenderNext ==
    \/ Goto
    \/ GotoRaises
    \/ InitialSnapshot
    \/ Scan
    \/ EndOfSelector
    \/ QueryRaises
    \/ Click
    \/ Return

RenderSpec == RenderInit /\ [][RenderNext]_vars

\* ------------------------------ _extract_from_table_html: one table row

\* <th> and <td> cells of a row
MaxCols == 4

\* lines 45-65.  A header with a character the module's strings cannot
\* hold is written by its reading: daibangou 台番号, bangou 番号, kishu 機種,
\* kishumei 機種名, heikinsamai 平均差枚, heikinGsuu 平均G数, ge-musuu
\* ゲーム数, kaitensuu 回転数, gousei 合成, kikaiwari 機械割.
column_map ==
    [h \in {"daibangou", "bangou"} |-> "machine_number"]
    @@ [h \in {"kishu", "kishumei"} |-> "machine_name"]
    @@ [h \in {"差枚", "heikinsamai", "総差枚", "出玉"} |->
          "credit_difference"]
    @@ [h \in {"heikinGsuu", "ge-musuu", "kaitensuu"} |-> "game_count"]
    @@ ("BB" :> "bb")
    @@ ("RB" :> "rb")
    @@ ("gousei" :> "synthesis")
    @@ [h \in {"kikaiwari", "出率"} |-> "payout_rate"]
    @@ ("BB確率" :> "bb_rate")
    @@ ("RB確率" :> "rb_rate")
    @@ ("勝率" :> "win_rate")

\* models.py lines 5-23: the fields of DailySlotData
ModelFields ==
    {"id", "date", "pref_id", "store_id", "machine_id", "machine_number",
     "credit_difference", "game_count", "payout_rate", "rate", "bb", "rb",
     "synthesis", "bb_rate", "rb_rate", "data_url", "created_at",
     "updated_at"}

\* lines 126-131
_model_has_field(field_name) == field_name \in ModelFields

\* lines 342-353
allowed_fields ==
    {"machine_number", "credit_difference", "game_count", "payout_rate",
     "bb", "rb", "synthesis", "bb_rate", "rb_rate", "win_rate"}

\* line 301 and lines 303, 305: the fields parsed as integers and as floats;
\* every other mapped field keeps the cell's text (line 312)
IntFields == {"machine_number", "credit_difference", "game_count", "bb", "rb"}

FloatFields == {"payout_rate", "bb_rate", "rb_rate", "win_rate"}

TextFields == {"machine_name", "synthesis"}

\* The header texts of the tables that are extracted: the credit difference,
\* BB, RB, the win ratio, and a header column_map does not know (a memo).
HeaderTexts == {"差枚", "BB", "RB", "勝率", "メモ"}

\* The texts of their <td> cells: a number and a ratio.
RowCellTexts == {<<"3">>, <<"2", "/", "5">>}

\* lines 266-274: the <th> texts, or col_0, col_1, ... for the <td> cells of
\* the first row when the table has no <th>
Headers(th, first_row) ==
    IF th # <<>> THEN th
    ELSE [i \in 1..Len(first_row) |-> "col_" \o ToString(i - 1)]

\* line 294: hdr = headers[idx] if idx < len(headers) else f"col_{idx}"
Hdr(headers, idx) ==
    IF idx < Len(headers) THEN headers[idx + 1]
    ELSE "col_" \o ToString(idx)

\* data = {} (line 291).  keys are the keys of the dict; a key that is not in
\* the dict reads as None here.
EmptyData ==
    [keys |-> {},
     ints |-> [f \in IntFields |-> None],
     floats |-> [f \in FloatFields |-> None],
     texts |-> [f \in TextFields |-> NoCell]]

\* lines 300-312: the cell of a mapped column is put into data
SetCell(data, mapped, cell_text) ==
    IF mapped = "win_rate"
      THEN LET w == _parse_win_rate(cell_text) IN
             [data EXCEPT !.keys = @ \cup {"bb", "rb", "win_rate"},
                          !.ints["bb"] = w.wins,
                          !.ints["rb"] = w.total,
                          !.floats["win_rate"] = w.pct]
    ELSE IF mapped \in IntFields
      THEN [data EXCEPT !.keys = @ \cup {mapped},
                        !.ints[mapped] = _safe_int(cell_text)]
    ELSE IF mapped \in FloatFields
      THEN [data EXCEPT !.keys = @ \cup {mapped},
                        !.floats[mapped] = _safe_float(cell_text)]
    ELSE [data EXCEPT !.keys = @ \cup {mapped},
                      !.texts[mapped] = Cell(cell_text)]

\* unmapped[hdr] = cell_text on a dict kept as its set of items
SetItem(dict, key, value) ==
    {item \in dict : item[1] # key} \cup {<<key, value>>}

\* lines 291-312: data and unmapped after the cells from idx on
RECURSIVE RowDicts(_, _, _, _, _)
RowDicts(headers, td_texts, idx, data, unmapped) ==
    IF idx >= Len(td_texts) THEN [data |-> data, unmapped |-> unmapped]
    ELSE LET hdr == Hdr(headers, idx)
             cell_text == td_texts[idx + 1]
         IN IF hdr \notin DOMAIN column_map
              THEN RowDicts(headers, td_texts, idx + 1, data,
                            SetItem(unmapped, hdr, cell_text))
              ELSE RowDicts(headers, td_texts, idx + 1,
                            SetCell(data, column_map[hdr], cell_text),
                            unmapped)

\* lines 333-367: the unsaved DailySlotData of a kept row.  kwargs are the
\* allowed fields of data that the model has; a field that is not passed is
\* None; raw_data is set only when the model has such a field.
Slot(data, unmapped) ==
    LET kwargs == {k \in allowed_fields :
                     k \in data.keys /\ _model_has_field(k)}
    IN [kwargs |-> kwargs,
        ints |-> [f \in IntFields |->
                    IF f \in kwargs THEN data.ints[f] ELSE None],
        floats |-> [f \in FloatFields |->
                      IF f \in kwargs THEN data.floats[f] ELSE None],
        raw_data |-> IF unmapped # {} /\ _model_has_field("raw_data")
                       THEN [has |-> TRUE, unmapped |-> unmapped]
                       ELSE [has |-> FALSE, unmapped |-> {}]]

\* A table of one row is handed to _extract_from_table_html: its <th> texts
\* (none for a table without header cells) and the <td> texts of the row.
TableInit ==
    /\ SessionInit
    /\ TextIdle
    /\ PipeIdle
    /\ RenderIdle
    /\ CmdIdle
    /\ table_th \in SeqsOf(HeaderTexts, 0, MaxCols)
    /\ table_tds \in SeqsOf(RowCellTexts, 1, MaxCols)
    /\ trc = "extract"
    /\ slot = <<>>

\* lines 264-371: the pass of the loop over the row
ExtractRow ==
    /\ trc = "extract"
    /\ LET r == RowDicts(Headers(table_th, table_tds), table_tds, 0,
                         EmptyData, {})
       IN slot' = IF TableRowKept(r.data)
                    THEN <<Slot(r.data, r.unmapped)>>
                    ELSE <<>>
    /\ trc' = "done"
    /\ UNCHANGED <<sessionVars, textVars, pipeVars, renderVars, cmdVars,
                   table_th, table_tds>>

TableNext == ExtractRow

TableSpec == TableInit /\ [][TableNext]_vars

\* ------------------- scrape_daily --sync and retry_failed_scrapes

\* runs of retry_failed_scrapes on the session
MaxRetryRuns == 2

\* The stores of a set in the order in which a loop takes them.
RECURSIVE Ascending(_)
Ascending(S) ==
    IF S = {} THEN <<>>
    ELSE LET m == CHOOSE x \in S : \A y \in S : x <= y
         IN <<m>> \o Ascending(S \ {m})

\* scrape_daily.py line 89
DailyStatus(n_failed) == IF n_failed = 0 THEN "completed" ELSE "partial"

\* The database holds no session; scrape_daily --sync is about to run.
CmdInit ==
    /\ SessionInit
    /\ TextIdle
    /\ PipeIdle
    /\ RenderIdle
    /\ TableIdle
    /\ cpc = "start"
    /\ retry_runs = 0
    /\ requeued = {}
    /\ loop = <<>>
    /\ successful = 0
    /\ failed = 0
    /\ records = 0
    /\ outcomes = [s \in Stores |-> "none"]
    /\ counted_ok = [s \in Stores |-> 0]
    /\ counted_failed = {}

cmdFrame ==
    <<textVars, pipeVars, renderVars, tableVars, opc, osess, oexc, tpc,
      retries, tsess, result, countdowns, execs, returned>>

\* scrape_daily.py lines 52-64: the session row is created and the locals
\* are set
DailyCreate ==
    /\ cpc = "start"
    /\ \E n \in 1..NumStores : store_ids' = 1..n
    /\ sess' = [NoRow EXCEPT !.status = "running",
                             !.total_stores = Cardinality(store_ids')]
    /\ loop' = Ascending(store_ids')
    /\ successful' = 0
    /\ failed' = 0
    /\ records' = 0
    /\ outcomes' = [s \in Stores |-> "none"]
    /\ cpc' = "daily"
    /\ UNCHANGED <<cmdFrame, slot_batches, scraping_errors, store_rows,
                   retry_runs, requeued, counted_ok, counted_failed>>

\* scrape_daily.py lines 66-84, retry_failed_scrapes.py lines 69-80: one
\* pass of the loop of the running command
ScrapeNext ==
    /\ cpc \in {"daily", "retry"}
    /\ loop # <<>>
    /\ LET s == Head(loop) IN
         \E fetch \in Fetches, nrows \in 0..MaxRows, dbok \in BOOLEAN :
           LET r == scrape_store_data(fetch, nrows, dbok) IN
             /\ slot_batches' =
                  IF r.success THEN [slot_batches EXCEPT ![s] = @ + 1]
                  ELSE slot_batches
             /\ scraping_errors' =
                  IF LogsScrapingError(r) THEN scraping_errors \cup {s}
                  ELSE scraping_errors
             /\ store_rows' = [store_rows EXCEPT ![s] = get_or_create(@)]
             /\ successful' = IF r.success THEN successful + 1 ELSE successful
             /\ records' =
                  IF r.success THEN records + r.records_created ELSE records
             /\ failed' = IF r.success THEN failed ELSE failed + 1
             /\ outcomes' =
                  [outcomes EXCEPT ![s] = IF r.success THEN "ok" ELSE "failed"]
    /\ loop' = Tail(loop)
    /\ UNCHANGED <<cmdFrame, store_ids, sess, cpc, retry_runs, requeued,
                   counted_ok, counted_failed>>

\* scrape_daily.py lines 86-91
DailySave ==
    /\ cpc = "daily"
    /\ loop = <<>>
    /\ sess' = [sess EXCEPT !.successful_stores = successful,
                            !.failed_stores = failed,
                            !.total_records = records,
                            !.status = DailyStatus(failed),
                            !.end_time = TRUE]
    /\ counted_ok' =
         [s \in Stores |-> IF outcomes[s] = "ok" THEN 1 ELSE 0]
    /\ counted_failed' = {s \in Stores : outcomes[s] = "failed"}
    /\ cpc' = "ready"
    /\ UNCHANGED <<cmdFrame, store_ids, slot_batches, scraping_errors,
                   store_rows, retry_runs, requeued, loop, successful, failed,
                   records, outcomes>>

\* retry_failed_scrapes.py line 57: the stores with a ScrapingError row of
\* the session
FailedStores == scraping_errors

\* retry_failed_scrapes.py lines 57-60: nothing to retry
RetryNothing ==
    /\ cpc = "ready"
    /\ retry_runs < MaxRetryRuns
    /\ FailedStores = {}
    /\ requeued' = {}
    /\ retry_runs' = retry_runs + 1
    /\ UNCHANGED <<cmdFrame, store_ids, sess, slot_batches, scraping_errors,
                   store_rows, cpc, loop, successful, failed, records,
                   outcomes, counted_ok, counted_failed>>

\* retry_failed_scrapes.py lines 57-67 with --sync
RetrySync ==
    /\ cpc = "ready"
    /\ retry_runs < MaxRetryRuns
    /\ FailedStores # {}
    /\ requeued' = FailedStores
    /\ retry_runs' = retry_runs + 1
    /\ loop' = Ascending(FailedStores)
    /\ successful' = 0
    /\ failed' = 0
    /\ records' = 0
    /\ outcomes' = [s \in Stores |-> "none"]
    /\ cpc' = "retry"
    /\ UNCHANGED <<cmdFrame, store_ids, sess, slot_batches, scraping_errors,
                   store_rows, counted_ok, counted_failed>>

\* retry_failed_scrapes.py lines 57-62, 92-97 without --sync: the stores are
\* handed to orchestrate_daily_scraping, which works on a session of its own
RetryQueued ==
    /\ cpc = "ready"
    /\ retry_runs < MaxRetryRuns
    /\ FailedStores # {}
    /\ requeued' = FailedStores
    /\ retry_runs' = retry_runs + 1
    /\ UNCHANGED <<cmdFrame, store_ids, sess, slot_batches, scraping_errors,
                   store_rows, cpc, loop, successful, failed, records,
                   outcomes, counted_ok, counted_failed>>

\* retry_failed_scrapes.py lines 82-85
RetrySave ==
    /\ cpc = "retry"
    /\ loop = <<>>
    /\ sess' = [sess EXCEPT !.successful_stores = @ + successful,
                            !.failed_stores = failed,
                            !.total_records = @ + records]
    /\ counted_ok' =
         [s \in Stores |->
            IF outcomes[s] = "ok" THEN counted_ok[s] + 1 ELSE counted_ok[s]]
    /\ counted_failed' = {s \in Stores : outcomes[s] = "failed"}
    /\ cpc' = "ready"
    /\ UNCHANGED <<cmdFrame, store_ids, slot_batches, scraping_errors,
                   store_rows, retry_runs, requeued, loop, successful, failed,
                   records, outcomes>>

CmdNext ==
    \/ DailyCreate
    \/ ScrapeNext
    \/ DailySave
    \/ RetryNothing
    \/ RetrySync
    \/ RetryQueued
    \/ RetrySave

CmdSpec == CmdInit /\ [][CmdNext]_vars

\* ------------------------------------------------------------- properties

Finished(s) == tpc[s] = "done"

\* the stores whose task returned success / a failure
Succeeded == {s \in store_ids : Finished(s) /\ returned[s].success}

Failed == {s \in store_ids : Finished(s) /\ ~returned[s].success}

RECURSIVE SumRecords(_)
SumRecords(S) ==
    IF S = {} THEN 0
    ELSE LET s == CHOOSE x \in S : TRUE
         IN returned[s].records_created + SumRecords(S \ {s})

\* C1: in every reachable state of an orchestrated session, retries
\* included, successful_stores + failed_stores <= total_stores.
C1_CountersWithinTotal ==
    sess.successful_stores + sess.failed_stores <= sess.total_stores

\* C1 witness: every store of a two-store session is counted, one of them
\* after a retry.
C1_Witness ==
    /\ sess.total_stores = 2
    /\ sess.successful_stores + sess.failed_stores = sess.total_stores
    /\ \E s \in store_ids : Finished(s) /\ retries[s] > 0

\* C2: once all tasks of a session have finished, no counter update is lost:
\* successful_stores is the number of tasks that ended in success,
\* failed_stores the number that ended in failure, total_records the sum of
\* records_created over the successful ones, and error_log holds one entry
\* per failed store.  Stated for the sessions in which no task raised and
\* the orchestrator has written nothing yet.
C2_NoLostUpdate ==
    (/\ opc = "wait"
     /\ \A s \in store_ids : Finished(s) /\ execs[s] = 1)
    => /\ sess.successful_stores = Cardinality(Succeeded)
       /\ sess.failed_stores = Cardinality(Failed)
       /\ sess.total_records = SumRecords(Succeeded)
       /\ sess.error_log = {StoreKey(s) : s \in Failed}

\* C3: the session status is terminal-once-set: it starts in running, moves
\* only to completed, partial or failed, and no later write changes a stored
\* terminal status.
C3_TerminalOnceSet ==
    [][/\ sess.status = "absent" => sess'.status \in {"absent", "running"}
       /\ sess.status = "running" => sess'.status \in {"running"} \cup Terminal
       /\ sess.status \in Terminal => sess'.status = sess.status]_vars

\* C4: when the orchestrator finalizes a session, the stored status is
\* completed when failed_stores = 0, partial when failed_stores > 0 and
\* successful_stores > 0, and failed when successful_stores = 0.
C4_FinalizationRule ==
    opc = "done" =>
        /\ sess.failed_stores = 0 => sess.status = "completed"
        /\ (sess.failed_stores > 0 /\ sess.successful_stores > 0)
              => sess.status = "partial"
        /\ sess.successful_stores = 0 => sess.status = "failed"

\* C5: a store whose task raised on its first and second execution and
\* succeeded on the third has its records persisted by exactly one batch;
\* when it is the only store of the session, the session has gained exactly
\* one in successful_stores and nothing in failed_stores.
C5_RetryCountsOnce ==
    \A s \in store_ids :
        (Finished(s) /\ execs[s] = max_retries + 1 /\ returned[s].success)
        => /\ slot_batches[s] = 1
           /\ (store_ids = {s} /\ opc = "wait")
                 => /\ sess.successful_stores = 1
                    /\ sess.failed_stores = 0

\* the orchestrator's step out of a timed-out wait
TimeoutFinalizes == opc = "wait" /\ opc' = "raised" /\ oexc' = "timeout"

\* C6: when the orchestrator's wait times out, the session is finalized from
\* the counts accumulated so far: the stored counters are the ones the tasks
\* had written, and the stored status is what the finalization rule gives
\* for them (completed for no failure and some success, partial for some of
\* both, failed for some failure and no success).
C6_TimeoutKeepsCounts ==
    [][TimeoutFinalizes
         => /\ sess'.successful_stores = sess.successful_stores
            /\ sess'.failed_stores = sess.failed_stores
            /\ sess'.total_records = sess.total_records
            /\ (sess.failed_stores = 0 /\ sess.successful_stores > 0)
                  => sess'.status = "completed"
            /\ (sess.failed_stores > 0 /\ sess.successful_stores > 0)
                  => sess'.status = "partial"
            /\ (sess.failed_stores > 0 /\ sess.successful_stores = 0)
                  => sess'.status = "failed"]_vars

\* C7: if a task execution was terminated at some step and no task is
\* running any more, then the session the orchestrator finalizes counts
\* every store exactly once in successful_stores + failed_stores.
C7_KilledTaskCountedOnce ==
    [][(/\ opc = "wait"
        /\ opc' \in {"done", "raised"}
        /\ \A s \in store_ids : tpc[s] \in {"done", "killed"}
        /\ \E s \in store_ids : tpc[s] = "killed")
       => /\ sess'.status \in Terminal
          /\ sess'.successful_stores + sess'.failed_stores
                = sess'.total_stores]_vars

\* C8: a fetch error (network failure, timeout, non-2xx) leads to a
\* task-level retry: a task that returned the failure of a scrape whose
\* fetch met an error, and so had it counted in failed_stores, has been
\* executed 3 times.
C8_FetchErrorRetried ==
    \A s \in store_ids :
        (Finished(s) /\ returned[s].fetch \in FetchErrors)
        => execs[s] = max_retries + 1

\* C9: a store's task is executed at most 3 times; the countdown of retry
\* number k (k = 0, 1) is 60 * 2^k; after the third execution raised no
\* further retry is scheduled and the store is counted exactly once in
\* failed_stores (stated for the store that is alone in its session, while
\* the orchestrator waits).
C9_BoundedRetries ==
    \A s \in Stores :
        /\ execs[s] <= max_retries + 1
        /\ Len(countdowns[s]) <= max_retries
        /\ \A k \in 1..Len(countdowns[s]) : countdowns[s][k] = 60 * 2 ^ (k - 1)
        /\ (Finished(s) /\ returned[s] = TaskFailure)
              => /\ execs[s] = max_retries + 1
                 /\ (store_ids = {s} /\ opc = "wait")
                       => sess.failed_stores = 1

\* a write of the session row that counts store s in failed_stores
CountsFailure(s) ==
    /\ opc = "wait"
    /\ tpc[s] \in {"save", "final_save"}
    /\ tpc'[s] = "done"
    /\ sess' # sess
    /\ sess'.failed_stores = tsess[s].failed_stores + 1

\* C10: every store counted in failed_stores has a ScrapingError row for the
\* session and an entry under its store id in error_log, whatever the cause
\* of the failure.
C10_FailureSurfaces ==
    [][\A s \in Stores :
          CountsFailure(s)
          => /\ s \in scraping_errors'
             /\ StoreKey(s) \in sess'.error_log]_vars

\* C11: a scrape that succeeds leaves the Store row with its last-success
\* timestamp set and consecutive_failures = 0; a scrape that fails with an
\* exception leaves consecutive_failures one higher than before the attempt.
C11_StoreHealthTracked ==
    [][\A s \in Stores :
         (tpc[s] = "scrape" /\ tpc'[s] = "refresh") =>
           /\ result'[s].success =>
                /\ store_rows'[s].last_successful_scrape
                /\ store_rows'[s].consecutive_failures = 0
           /\ result'[s].errors = "net_error" =>
                store_rows'[s].consecutive_failures =
                  store_rows[s].consecutive_failures + 1]_vars

\* C12: when dispatching or joining the group raises, the except branch
\* stores the session with status failed, end_time set and an
\* orchestration_error entry in error_log, and the exception is re-raised.
C12_OrchestrationErrorStored ==
    [][(ApplyAsyncRaises \/ GetRaises \/ GetTimesOut) =>
         /\ sess'.status = "failed"
         /\ sess'.end_time
         /\ "orchestration_error" \in sess'.error_log
         /\ opc' = "raised"
         /\ oexc' # "none"]_vars

\* C12 witness: the result backend failed while the group was joined and
\* the session is stored failed, closed and logged.
C12_Witness ==
    /\ opc = "raised"
    /\ oexc = "backend"
    /\ sess.status = "failed"
    /\ sess.end_time
    /\ "orchestration_error" \in sess.error_log

\* C13: every created session eventually reaches a terminal status, and it
\* reaches one terminal status only: the stored status never goes from one
\* terminal status to a different one.
C13_ReachesOneTerminalStatus ==
    /\ (opc = "dispatch") ~> (sess.status \in Terminal)
    /\ [][sess.status \in Terminal /\ sess'.status \in Terminal
            => sess'.status = sess.status]_vars

\* C13 witness: the orchestrator finalised a session all of whose tasks
\* returned.
C13_Witness ==
    /\ opc = "done"
    /\ sess.status \in Terminal
    /\ \A s \in store_ids : Finished(s)

\* the value of a present percentage is the hundredth nearest to
\* 100 * wins / total
PctIsNearest(r) ==
    LET unit == Scale \div 100
        h == r.pct.val \div unit
        d == h * r.total.val - r.wins.val * 10000
    IN /\ r.pct.val = h * unit
       /\ 2 * (IF d < 0 THEN 0 - d ELSE d) <= r.total.val

\* 'NN%': a number followed by the percent sign gives that number as the
\* percentage and neither wins nor total
PercentTextGivesPct ==
    (/\ "_parse_win_rate" \in called
     /\ text # <<>>
     /\ text[Len(text)] = "%"
     /\ IsFloat(SubSeq(text, 1, Len(text) - 1)))
    => win_rate_ret =
         [wins |-> None, total |-> None,
          pct |-> Some(float(SubSeq(text, 1, Len(text) - 1)))]

\* the three ratio texts the specification works out
RatioExamples ==
    "_parse_win_rate" \in called =>
      /\ text = <<"3", "/", "5">> =>
           win_rate_ret =
             [wins |-> Some(3), total |-> Some(5), pct |-> Some(60 * Scale)]
      /\ text = <<"0", "/", "5">> => win_rate_ret.pct = Some(0)
      /\ text = <<"3", "/", "0">> => win_rate_ret.pct = None

\* wins and total of a ratio text are the integer parses of its two parts
RatioParts ==
    ("_parse_win_rate" \in called /\ Contains(text, "/")) =>
      /\ win_rate_ret.wins = _safe_int(split(text)[1])
      /\ win_rate_ret.total = _safe_int(split(text)[2])

\* C18 as stated: on a ratio text wins and total are the integer parses of
\* the two parts and the percentage is present, and is the rounded
\* 100 * wins / total, exactly when total > 0; a percentage text gives its
\* number with wins and total absent.
C18_PercentWheneverTotalPositive ==
    /\ RatioParts
    /\ RatioExamples
    /\ PercentTextGivesPct
    /\ ("_parse_win_rate" \in called /\ Contains(text, "/")) =>
         /\ win_rate_ret.pct.has <=>
              (win_rate_ret.total.has /\ win_rate_ret.total.val > 0)
         /\ win_rate_ret.pct.has => PctIsNearest(win_rate_ret)

\* C18 amended: the percentage of a ratio text is present exactly when wins
\* is present and total > 0 (a part such as '-' parses to absent, and then
\* there is nothing to divide); the rest as stated.
C18_PercentWhenWinsAndTotalPositive ==
    /\ RatioParts
    /\ RatioExamples
    /\ PercentTextGivesPct
    /\ ("_parse_win_rate" \in called /\ Contains(text, "/")) =>
         /\ win_rate_ret.pct.has <=>
              /\ win_rate_ret.wins.has
              /\ win_rate_ret.total.has
              /\ win_rate_ret.total.val > 0
         /\ win_rate_ret.pct.has => PctIsNearest(win_rate_ret)

\* C18 witness: '3/5' was parsed to 3, 5 and 60.0
C18_Witness ==
    /\ "_parse_win_rate" \in called
    /\ text = <<"3", "/", "5">>
    /\ win_rate_ret.wins = Some(3)
    /\ win_rate_ret.pct = Some(60 * Scale)

\* The cleanup rules as the specification words them: thousands separators
\* are removed, unit glyphs are removed from the end of the text, one
\* leading '+' is stripped; the empty text and '-' are absent; any other
\* text is parsed as a float and truncated toward zero (absent when it is
\* not a number).
RECURSIVE StripUnitSuffix(_)
StripUnitSuffix(s) ==
    IF s # <<>> /\ s[Len(s)] \in Units
      THEN StripUnitSuffix(SubSeq(s, 1, Len(s) - 1))
      ELSE s

CleanupRules(t) ==
    LET a == SelectSeq(t, LAMBDA c : c # ",")
        b == StripUnitSuffix(a)
        s == IF b # <<>> /\ Head(b) = "+" THEN Tail(b) ELSE b
    IN IF s = <<>> \/ s = <<"-">> THEN None
       ELSE IF IsFloat(s) THEN Some(int(float(s)))
       ELSE None

\* C19: on every text over the alphabet _safe_int returns what the cleanup
\* rules give.
C19_SafeIntFollowsRules ==
    "_safe_int" \in called => safe_int_ret = CleanupRules(text)

\* the call of _parse_store_page_enhanced has returned
Parsed == ppc \in {"write", "done"}

Keys(rows) == {rows[i].id.key : i \in 1..Len(rows)}

\* C14: the rows the table strategy extracted in one call are deduplicated by
\* unique key: the output holds at most one record per unique key, and its
\* size is the number of extracted rows minus the number of duplicates, that
\* is the number of different unique keys among them.
C14_OneRecordPerUniqueKey ==
    (Parsed /\ snapshots_parsed > 0) =>
      /\ \A i, j \in 1..Len(final_rows) :
           i # j => final_rows[i].id.key # final_rows[j].id.key
      /\ Len(final_rows) =
           Cardinality({unique_key(AllRows(capture.html_fragments)[i]) :
                          i \in 1..Len(AllRows(capture.html_fragments))})

\* C15: the list handed to bulk_create has pairwise different ids, whether
\* its rows come from the JSON strategy or from the table strategy.
C15_BatchIdsDistinct ==
    ppc = "done" =>
      \A i, j \in 1..Len(batch) : i # j => batch[i].id # batch[j].id

\* a row in which machine number, machine name and credit difference are all
\* missing, a cell that parses to absent counting as missing
AllMissing(d) ==
    /\ ~d.machine_number.has
    /\ ~d.machine_name.has
    /\ ~d.credit_difference.has

\* C16: no record of the output, of the table strategy or of the JSON
\* strategy, comes from a row in which machine number, machine name and
\* credit difference are all missing.
C16_NoRecordOfEmptyRow ==
    Parsed => \A i \in 1..Len(final_rows) : ~AllMissing(final_rows[i].data)

\* C17: when the JSON strategy yields no row, every snapshot is parsed and
\* the output is the deduplicated union of their table rows (every record is
\* a table row of a snapshot, every table row's unique key has a record, no
\* two records share an id); when it yields a row, the output is the JSON
\* rows, in their order, and no snapshot is parsed.
C17_JsonFirstElseEverySnapshot ==
    Parsed =>
      LET json == JsonYield(capture)
          all == AllRows(capture.html_fragments)
      IN IF json = <<>>
           THEN /\ snapshots_parsed = Len(capture.html_fragments)
                /\ \A i \in 1..Len(final_rows) :
                     \E k \in 1..Len(all) : final_rows[i].data = all[k]
                /\ \A k \in 1..Len(all) :
                     unique_key(all[k]) \in Keys(final_rows)
                /\ \A i, j \in 1..Len(final_rows) :
                     i # j => final_rows[i].id # final_rows[j].id
           ELSE /\ snapshots_parsed = 0
                /\ Len(final_rows) = Len(json)
                /\ \A i \in 1..Len(json) : final_rows[i].data = json[i]

\* C17 witness: a capture with a payload whose items yield no row and with
\* two snapshots, both parsed, the rows of both in the output.
C17_Witness ==
    /\ Parsed
    /\ capture.json_payloads # <<>>
    /\ JsonYield(capture) = <<>>
    /\ snapshots_parsed = 2
    /\ Len(final_rows) = 2

\* C20: the unique key of every output record is its machine number whenever
\* one was extracted (0 included), else its machine name (table strategy)
\* when one was extracted, else a bounded hash of the row's raw text.
C20_KeyIsNumberElseNameElseHash ==
    Parsed =>
      \A i \in 1..Len(final_rows) :
        LET d == final_rows[i].data
            key == final_rows[i].id.key
        IN IF d.machine_number.has THEN key = str(d.machine_number.val)
           ELSE IF d.machine_name.has THEN key = d.machine_name.val
           ELSE \E h \in 0..HashMask : key = str(h)

\* C21: a scrape whose rows were extracted but whose bulk write raised
\* returns success = False and records_created = 0, and the task that saves
\* it adds the store to failed_stores and not to successful_stores.
C21_PersistenceErrorCountsFailed ==
    [][\A s \in Stores :
         (tpc[s] = "save" /\ tpc'[s] = "done" /\ result[s].errors = "db_error")
         => /\ result[s].fetch = "ok"
            /\ ~returned'[s].success
            /\ returned'[s].records_created = 0
            /\ sess'.failed_stores = tsess[s].failed_stores + 1
            /\ sess'.successful_stores = tsess[s].successful_stores
            /\ StoreKey(s) \in sess'.error_log]_vars

\* C21 witness: the task of a store whose bulk write raised has returned and
\* the session counts one failed store and no successful one.
C21_Witness ==
    \E s \in store_ids :
      /\ Finished(s)
      /\ returned[s].errors = "db_error"
      /\ sess.failed_stores = 1
      /\ sess.successful_stores = 0

\* The candidates the click loop has clicked or tried to click.
Clicked == SubSeq(clickable_locators, 1, Len(clicks))

\* The snapshots taken after the clicks, in click order: one for each
\* candidate for which `wanted` holds of the outcome of its pass.
RECURSIVE SnapshotsOf(_, _, _)
SnapshotsOf(passes, i, wanted) ==
    IF i > Len(passes) THEN <<>>
    ELSE (IF passes[i] \in wanted THEN <<i>> ELSE <<>>)
         \o SnapshotsOf(passes, i + 1, wanted)

\* The clicks that went through, whatever page.content() did afterwards.
SuccessfulClicks == {"ok", "content_failed"}

\* What C22 says of the candidates: at most max_tab_clicks are clicked, each
\* has a keyword in its text, no two have the same normalized text.
ClickedCandidatesSound ==
    /\ Len(clicks) <= max_tab_clicks
    /\ \A i \in 1..Len(clicks) : clickable_locators[i].kw
    /\ \A i, j \in 1..Len(clicks) :
         Clicked[i].text = Clicked[j].text => i = j

\* C22 as stated: at most max_tab_clicks candidates are clicked, each with a
\* tab keyword in its visible text and no two with the same normalized text,
\* and the returned bundle holds the initial snapshot followed by exactly one
\* snapshot per successful click, in click order.
C22_BundleIsInitialPlusOnePerClick ==
    rpc = "returned"
      => /\ ClickedCandidatesSound
         /\ fragments = <<0>> \o SnapshotsOf(clicks, 1, SuccessfulClicks)

\* C22 amended: at most max_tab_clicks candidates are clicked, each with a
\* tab keyword in its visible text and no two with the same normalized text;
\* the returned bundle holds the initial snapshot unless taking it raised,
\* followed by exactly one snapshot per candidate whose click and whose
\* snapshot both went through, in click order.
C22_BundleIsSnapshotsThatWentThrough ==
    rpc = "returned"
      => /\ ClickedCandidatesSound
         /\ \E initial \in {<<>>, <<0>>} :
              fragments = initial \o SnapshotsOf(clicks, 1, {"ok"})

\* C22 witness: more candidates than max_tab_clicks were collected, the first
\* max_tab_clicks were clicked with a failure among them, and the bundle was
\* returned with the initial snapshot.
C22_Witness ==
    /\ rpc = "returned"
    /\ Len(clickable_locators) > max_tab_clicks
    /\ Len(clicks) = max_tab_clicks
    /\ clicks[2] = "click_failed"
    /\ clicks[3] = "ok"
    /\ fragments = <<0>> \o SnapshotsOf(clicks, 1, {"ok"})

\* C23 as stated: neither a navigation timeout nor a click failure aborts
\* the capture; after a navigation timeout the current DOM is still
\* snapshotted, a failing click adds no snapshot, every later candidate is
\* still clicked, and the snapshots taken before stay in the bundle.
C23_TimeoutAndClickFailureTolerated ==
    [][/\ (rpc = "goto" /\ goto_timed_out') => rpc' = "snapshot"
       /\ (rpc = "snapshot" /\ goto_timed_out) => fragments' = <<0>>
       /\ (rpc = "click" /\ Len(clicks') > Len(clicks)
             /\ clicks'[Len(clicks')] = "click_failed")
            => fragments' = fragments /\ rpc' = "click"
       /\ Len(fragments') >= Len(fragments)
       /\ SubSeq(fragments', 1, Len(fragments)) = fragments
       /\ rpc' = "returned"
            => Len(clicks') = Len(ToClick(clickable_locators'))]_vars

\* C23 amended: neither a navigation timeout nor a click failure aborts the
\* capture; after a navigation timeout the capture goes on to snapshot the
\* current DOM, and the snapshot is in the bundle unless page.content()
\* itself raised; a failing click adds no snapshot, every later candidate is
\* still clicked, and the snapshots taken before stay in the bundle.
C23_TimeoutAndClickFailureTolerated_Amended ==
    [][/\ (rpc = "goto" /\ goto_timed_out') => rpc' = "snapshot"
       /\ (rpc = "snapshot" /\ goto_timed_out)
            => rpc' = "scan" /\ fragments' \in {<<>>, <<0>>}
       /\ (rpc = "click" /\ Len(clicks') > Len(clicks)
             /\ clicks'[Len(clicks')] # "ok")
            => fragments' = fragments /\ rpc' = "click"
       /\ Len(fragments') >= Len(fragments)
       /\ SubSeq(fragments', 1, Len(fragments)) = fragments
       /\ rpc' = "returned"
            => Len(clicks') = Len(ToClick(clickable_locators'))]_vars

\* C23 witness: the navigation timed out, the DOM was snapshotted, the first
\* click went through, the second failed, the third went through, and the
\* bundle holds the three snapshots.
C23_Witness ==
    /\ rpc = "returned"
    /\ goto_timed_out
    /\ Len(clicks) = 3
    /\ clicks = <<"ok", "click_failed", "ok">>
    /\ fragments = <<0, 1, 3>>

\* The kept rows of the snapshots whose extraction does not raise.
RowsOfSound(frags) ==
    UNION {{_extract_from_table_html(frags[i])[k] :
              k \in 1..Len(_extract_from_table_html(frags[i]))} :
           i \in {n \in 1..Len(frags) : ~frags[n].raises}}

\* An exception was met on the way: the JSON extraction raised, or the
\* fragments were parsed and the extraction of one of them raised.
ExtractionRaised ==
    \/ _extract_from_json_payloads(capture.json_payloads).raised
    \/ /\ JsonYield(capture) = <<>>
       /\ \E i \in 1..Len(capture.html_fragments) :
            capture.html_fragments[i].raises

\* C24: when the extraction from one snapshot or from the JSON payloads
\* raised, the call still returns, every snapshot has had its pass, and every
\* kept row of every other snapshot is in the output: a record carries its
\* unique key, and every record is such a row.
C24_ExtractionErrorIsLocal ==
    (Parsed /\ ExtractionRaised) =>
      /\ JsonYield(capture) = <<>>
      /\ snapshots_parsed = Len(capture.html_fragments)
      /\ \A d \in RowsOfSound(capture.html_fragments) :
           unique_key(d) \in Keys(final_rows)
      /\ \A i \in 1..Len(final_rows) :
           final_rows[i].data \in RowsOfSound(capture.html_fragments)

\* C24 witness: the JSON extraction raised, the extraction of the first
\* snapshot raised, and the row of the second snapshot was written.
C24_Witness ==
    /\ ppc = "done"
    /\ _extract_from_json_payloads(capture.json_payloads).raised
    /\ Len(capture.html_fragments) = 2
    /\ capture.html_fragments[1].raises
    /\ ~capture.html_fragments[2].raises
    /\ Len(batch) = 1

\* The places (from 0) of the cells of the extracted row.
CellPlaces == 0..(Len(table_tds) - 1)

RowHeaders == Headers(table_th, table_tds)

\* C25: every header/value pair of a row turned into a record whose header
\* has no column_map entry is in the record's auxiliary payload.
C25_UnmappedPairsRetained ==
    (trc = "done" /\ slot # <<>>) =>
      \A idx \in CellPlaces :
        Hdr(RowHeaders, idx) \notin DOMAIN column_map
          => /\ slot[1].raw_data.has
             /\ \E item \in slot[1].raw_data.unmapped :
                  item[1] = Hdr(RowHeaders, idx)

\* The places of the cells under the header h.
PlacesOf(h) == {idx \in CellPlaces : Hdr(RowHeaders, idx) = h}

\* C29: when the table has one BB column and one RB column, bb and rb of the
\* record are the integers parsed from the row's cells in those columns,
\* whatever other columns the table has and wherever they stand.
C29_BbRbFromTheirCells ==
    (/\ trc = "done"
     /\ slot # <<>>
     /\ Cardinality(PlacesOf("BB")) = 1
     /\ Cardinality(PlacesOf("RB")) = 1)
      => /\ \A idx \in PlacesOf("BB") :
              slot[1].ints["bb"] = _safe_int(table_tds[idx + 1])
         /\ \A idx \in PlacesOf("RB") :
              slot[1].ints["rb"] = _safe_int(table_tds[idx + 1])

\* C30: a table without any header cell gives no record: none of the
\* synthesized headers col_0, col_1, ... has a column_map entry, so the row
\* fails the acceptance test.
C30_HeaderlessTableGivesNoRecord ==
    (trc = "done" /\ table_th = <<>>) =>
      /\ \A idx \in CellPlaces : Hdr(RowHeaders, idx) \notin DOMAIN column_map
      /\ slot = <<>>

\* C30 witness: a row of three cells of a table without header cells has
\* had its pass and gave no record.
C30_Witness ==
    /\ trc = "done"
    /\ table_th = <<>>
    /\ Len(table_tds) = 3
    /\ slot = <<>>

\* C26: a run of retry_failed_scrapes collects every store the session
\* counts as failed and no store it counts as successful, on its first run
\* and on every later one.
C26_RetryCollectsTheFailedStores ==
    [][retry_runs' = retry_runs + 1
         => /\ counted_failed \subseteq requeued'
            /\ \A s \in requeued' : counted_ok[s] = 0]_vars

\* C27: whatever the number of --sync runs of retry_failed_scrapes,
\* successful_stores + failed_stores stays at most total_stores and no store
\* is counted more than once in successful_stores.
C27_RetryKeepsCountersSound ==
    /\ sess.successful_stores + sess.failed_stores <= sess.total_stores
    /\ \A s \in Stores : counted_ok[s] <= 1

\* C28: the status scrape_daily --sync stores is the one the orchestrator's
\* finalization rule gives for the counts it stores.
C28_SyncStatusIsFinalStatus ==
    [][(cpc = "daily" /\ cpc' = "ready")
         => sess'.status = FinalStatus(sess')]_vars

====
